---- MODULE Spec2Model ----
(***************************************************************************)
(* NECMIS scraper (scraper.py): the MassDOT and MaineDOT parsers, the      *)
(* portal stub, fetch_dot_lettings, calculate_market_health, build_summary *)
(* and run_scraper, as a state machine over one run of the scraper.        *)
(*                                                                         *)
(* Representation.  Python None is the empty tuple and a present value v   *)
(* is the one-element tuple <<v>>.  Text that the code only copies is a    *)
(* TLA+ string.  A Python float is an integer number of whole dollars,     *)
(* with Inf and NaN for float('inf') and float('nan').  Scores of the      *)
(* market-health table are held in tenths (9.0 is 90) and weights in       *)
(* hundredths (0.15 is 15).                                                *)
(***************************************************************************)
EXTENDS Integers, Sequences, FiniteSets, TLC

None == <<>>
Some(v) == <<v>>

(***************************************************************************)
(* Bounds of the model.                                                    *)
(***************************************************************************)
\* blocks in a short MassDOT page
MaxBlocks == 2
\* rows in a short MaineDOT sheet
MaxRows == 2
\* news items returned by fetch_rss_feeds
MaxNews == 2
\* a long page or sheet holds MA_CAP + LongExtra blocks or rows
LongExtra == 1

(***************************************************************************)
(* CONFIGURATION                                                           *)
(***************************************************************************)
STATES == <<"VT", "NH", "ME", "MA", "NY", "RI", "CT", "PA">>

DOT_ORDER == <<"MA", "ME", "NH", "VT", "NY", "RI", "CT", "PA">>

DOT_SOURCES ==
  [MA |-> [name |-> "MassDOT",
           portal_url |-> "https://hwy.massdot.state.ma.us/webapps/const/statusReport.asp",
           parser |-> "active"],
   ME |-> [name |-> "MaineDOT",
           portal_url |-> "https://www.maine.gov/dot/major-projects/cap/schedule",
           parser |-> "active"],
   NH |-> [name |-> "NHDOT",
           portal_url |-> "https://www.dot.nh.gov/doing-business-nhdot/contractors/invitation-bid",
           parser |-> "stub"],
   VT |-> [name |-> "VTrans",
           portal_url |-> "https://vtrans.vermont.gov/contract-admin/bids-requests/construction-contracting",
           parser |-> "stub"],
   NY |-> [name |-> "NYSDOT",
           portal_url |-> "https://www.dot.ny.gov/doing-business/opportunities/const-highway",
           parser |-> "stub"],
   RI |-> [name |-> "RIDOT",
           portal_url |-> "https://www.dot.ri.gov/about/current_projects.php",
           parser |-> "stub"],
   CT |-> [name |-> "CTDOT",
           portal_url |-> "https://portal.ct.gov/DOT/Doing-Business/Contractor-Information",
           parser |-> "stub"],
   PA |-> [name |-> "PennDOT",
           portal_url |-> "https://www.penndot.pa.gov/business/Letting/Pages/default.aspx",
           parser |-> "stub"]]

ME_EXCEL_URL == "https://www.maine.gov/dot/sites/maine.gov.dot/files/inline-files/monthly.xls"

BUSINESS_LINES == <<"highway", "hma", "aggregates", "ready_mix", "liquid_asphalt">>

BUSINESS_LINE_KEYWORDS ==
  [highway |-> {"highway", "road", "interstate", "route", "bridge", "DOT",
                "transportation", "reconstruction", "resurfacing"},
   hma |-> {"asphalt", "paving", "resurfacing", "overlay", "milling", "HMA",
            "hot mix", "surfacing", "pavement"},
   aggregates |-> {"aggregate", "gravel", "sand", "stone", "quarry"},
   ready_mix |-> {"concrete", "ready-mix", "cement", "bridge deck", "deck"},
   liquid_asphalt |-> {"liquid asphalt", "bitumen", "emulsion"}]

ME_WORK_TYPES ==
  <<"Highway Construction", "Highway Preservation Paving",
    "Highway Light Capital Paving (LCP)", "Highway Safety and Spot Improvements",
    "Bridge Construction", "Bridge Other", "Multimodal">>

ME_WORK_TYPE_MAPPING ==
  [w \in {ME_WORK_TYPES[i] : i \in 1..Len(ME_WORK_TYPES)} |->
     CASE w = "Highway Construction" -> <<"highway", "hma", "aggregates">>
       [] w = "Highway Preservation Paving" -> <<"highway", "hma">>
       [] w = "Highway Light Capital Paving (LCP)" -> <<"highway", "hma">>
       [] w = "Highway Safety and Spot Improvements" -> <<"highway">>
       [] w = "Bridge Construction" -> <<"highway", "aggregates", "ready_mix">>
       [] w = "Bridge Other" -> <<"highway">>
       [] w = "Multimodal" -> <<"highway">>]

(***************************************************************************)
(* Text.  Python str operations on TLA+ strings, one character at a time.  *)
(***************************************************************************)
Min(a, b) == IF a <= b THEN a ELSE b

Range(s) == {s[i] : i \in 1..Len(s)}

CharAt(s, i) == SubSeq(s, i, i)

UPPER == "ABCDEFGHIJKLMNOPQRSTUVWXYZ"
LOWER == "abcdefghijklmnopqrstuvwxyz"
DIGITS == "0123456789"

IndexIn(alphabet, c) ==
  IF \E i \in 1..Len(alphabet) : CharAt(alphabet, i) = c
    THEN CHOOSE i \in 1..Len(alphabet) : CharAt(alphabet, i) = c
    ELSE 0

LowerChar(c) == IF IndexIn(UPPER, c) > 0 THEN CharAt(LOWER, IndexIn(UPPER, c)) ELSE c
UpperChar(c) == IF IndexIn(LOWER, c) > 0 THEN CharAt(UPPER, IndexIn(LOWER, c)) ELSE c
IsAlpha(c) == IndexIn(UPPER, c) > 0 \/ IndexIn(LOWER, c) > 0
IsDigit(c) == IndexIn(DIGITS, c) > 0

\* the first and the second half of a string of two characters or more
Left(s) == SubSeq(s, 1, Len(s) \div 2)
Right(s) == SubSeq(s, Len(s) \div 2 + 1, Len(s))

RECURSIVE Lower(_)
Lower(s) ==
  IF Len(s) = 0 THEN ""
  ELSE IF Len(s) = 1 THEN LowerChar(s)
  ELSE Lower(Left(s)) \o Lower(Right(s))

RECURSIVE Upper(_)
Upper(s) ==
  IF Len(s) = 0 THEN ""
  ELSE IF Len(s) = 1 THEN UpperChar(s)
  ELSE Upper(Left(s)) \o Upper(Right(s))

\* str.title(): a letter is upper-cased after a non-letter, lower-cased after a letter
RECURSIVE TitleFrom(_, _)
TitleFrom(s, afterLetter) ==
  IF Len(s) = 0 THEN ""
  ELSE LET c == CharAt(s, 1)
       IN (IF afterLetter THEN LowerChar(c) ELSE UpperChar(c))
          \o TitleFrom(SubSeq(s, 2, Len(s)), IsAlpha(c))

Title(s) == TitleFrom(s, FALSE)

\* kw in text
Contains(text, kw) ==
  \E i \in 1..(Len(text) - Len(kw) + 1) : SubSeq(text, i, i + Len(kw) - 1) = kw

StartsWith(s, p) == Len(s) >= Len(p) /\ SubSeq(s, 1, Len(p)) = p

\* s[:n]
Prefix(s, n) == SubSeq(s, 1, Min(n, Len(s)))

\* re.sub over a character class: s without the characters of drop
RECURSIVE StripChars(_, _)
StripChars(s, drop) ==
  IF Len(s) = 0 THEN ""
  ELSE IF Len(s) = 1 THEN (IF Contains(drop, s) THEN "" ELSE s)
  ELSE StripChars(Left(s), drop) \o StripChars(Right(s), drop)

AllDigits(s) == \A i \in 1..Len(s) : IsDigit(CharAt(s, i))

\* the number a string of decimal digits denotes
RECURSIVE DigitsValue(_)
DigitsValue(s) ==
  IF Len(s) = 0 THEN 0
  ELSE 10 * DigitsValue(SubSeq(s, 1, Len(s) - 1)) + (IndexIn(DIGITS, CharAt(s, Len(s))) - 1)

\* re.search(r'\d+', s).group(): the first run of digits of s, "" when there is none
RECURSIVE DigitRun(_)
DigitRun(s) ==
  IF Len(s) = 0 \/ ~IsDigit(CharAt(s, 1)) THEN ""
  ELSE CharAt(s, 1) \o DigitRun(SubSeq(s, 2, Len(s)))

RECURSIVE FirstDigits(_)
FirstDigits(s) ==
  IF Len(s) = 0 THEN ""
  ELSE IF IsDigit(CharAt(s, 1)) THEN DigitRun(s)
  ELSE FirstDigits(SubSeq(s, 2, Len(s)))

(***************************************************************************)
(* HELPERS                                                                 *)
(***************************************************************************)
\* hashlib.md5(text).hexdigest()[:12]: a function of the text alone.  The
\* digest is not computed; two different texts are given different ids, so
\* the model has no hash collisions, only equal ids from equal texts.
generate_id(text) == "md5_12(" \o text \o ")"

\* kw.lower() of every keyword of a business line, line 144
keywords_lower ==
  [line \in DOMAIN BUSINESS_LINE_KEYWORDS |-> {Lower(kw) : kw \in BUSINESS_LINE_KEYWORDS[line]}]

\* a classifier that returns the matched lines also when there is none
get_business_lines_no_default(text) ==
  LET text_lower == Lower(text)
      hit(line) == \E kw \in keywords_lower[line] : Contains(text_lower, kw)
  IN SelectSeq(BUSINESS_LINES, hit)

\* lines 140-146
get_business_lines(text) ==
  LET text_lower == Lower(text)
      hit(line) == \E kw \in keywords_lower[line] : Contains(text_lower, kw)
      lines == SelectSeq(BUSINESS_LINES, hit)
  IN IF lines # <<>> THEN lines ELSE <<"highway">>

(***************************************************************************)
(* Floats.  A finite float is its whole number of dollars; the strings of  *)
(* the model have no non-zero fractional digits.  float() of a string of   *)
(* more than MAX_FLOAT_DIGITS digits is inf.                               *)
(***************************************************************************)
Inf == 2147483647
NaN == -2147483647
MAX_FLOAT_DIGITS == 309

\* float(s): Some(value), or None when float() raises ValueError
float(s) ==
  LET signed == Len(s) > 0 /\ CharAt(s, 1) \in {"-", "+"}
      sign == IF signed /\ CharAt(s, 1) = "-" THEN -1 ELSE 1
      u == IF signed THEN SubSeq(s, 2, Len(s)) ELSE s
      dot == IndexIn(u, ".")
      whole == IF dot = 0 THEN u ELSE SubSeq(u, 1, dot - 1)
      frac == IF dot = 0 THEN "" ELSE SubSeq(u, dot + 1, Len(u))
  IN IF Lower(u) \in {"inf", "infinity"} THEN Some(Inf)
     ELSE IF Lower(u) = "nan" THEN Some(NaN)
     ELSE IF Len(whole) + Len(frac) = 0 \/ ~AllDigits(whole) \/ ~AllDigits(frac) THEN None
     ELSE IF Len(whole) > MAX_FLOAT_DIGITS THEN Some(Inf)
     ELSE Some(sign * DigitsValue(whole))

\* int(x) raises OverflowError for inf and ValueError for nan
IntRaises(x) == x \in {Inf, NaN}

parse_currency(text) ==
  IF Len(text) = 0 THEN None
  ELSE float(StripChars(text, ",$"))

\* round(n / unit) to the nearest integer, ties to even (the rule of the
\* 'f' format on the exact quotient)
RoundDiv(n, unit) ==
  LET q == n \div unit
      r == n % unit
  IN IF 2 * r > unit \/ (2 * r = unit /\ q % 2 = 1) THEN q + 1 ELSE q

\* f"{n:,}" of a natural number
RECURSIVE Grouped(_)
Grouped(n) ==
  IF n < 1000 THEN ToString(n)
  ELSE Grouped(n \div 1000) \o ","
       \o (IF n % 1000 < 10 THEN "00" ELSE IF n % 1000 < 100 THEN "0" ELSE "")
       \o ToString(n % 1000)

\* f"{x:.1f}" of tenths / 10
OneDecimal(tenths) == ToString(tenths \div 10) \o "." \o ToString(tenths % 10)

format_currency(amount) ==
  IF amount = None THEN None
  ELSE LET a == amount[1]
       IN IF a >= 1000000000 THEN Some("$" \o OneDecimal(RoundDiv(a, 100000000)) \o "B")
          ELSE IF a >= 1000000 THEN Some("$" \o OneDecimal(RoundDiv(a, 100000)) \o "M")
          ELSE IF a >= 1000 THEN Some("$" \o ToString(RoundDiv(a, 1000)) \o "K")
          ELSE Some("$" \o (IF a < 0 THEN "-" \o Grouped(-a) ELSE Grouped(a)))

clean_location(loc) ==
  IF loc = None \/ Len(loc[1]) = 0 THEN None
  ELSE IF StartsWith(Upper(loc[1]), "DISTRICT")
       THEN (IF Len(FirstDigits(loc[1])) > 0
               THEN Some("District " \o FirstDigits(loc[1]))
               ELSE Some("Various Locations"))
       ELSE Some(Title(loc[1]))

\* str(x) of a float that holds a whole number: "2500000.0"
FloatStr(x) == IF x = Inf THEN "inf" ELSE IF x = NaN THEN "nan" ELSE ToString(x) \o ".0"

(***************************************************************************)
(* Dates.  A date text matched by \d{1,2}/\d{1,2}/\d{4} is the triple      *)
(* <<month, day, year>> of its numbers.                                    *)
(***************************************************************************)
IsLeap(y) == (y % 4 = 0 /\ y % 100 # 0) \/ y % 400 = 0

DaysInMonth(y, m) ==
  IF m = 2 THEN (IF IsLeap(y) THEN 29 ELSE 28)
  ELSE IF m \in {4, 6, 9, 11} THEN 30 ELSE 31

Pad(n, w) == IF w = 4 /\ n < 1000 THEN (IF n < 100 THEN (IF n < 10 THEN "000" ELSE "00") ELSE "0") \o ToString(n)
             ELSE IF w = 2 /\ n < 10 THEN "0" \o ToString(n)
             ELSE ToString(n)

\* a reformatting that keeps the text it cannot parse
ReformatDateKeepRaw(d) ==
  IF d[1] \in 1..12 /\ d[3] >= 1 /\ d[2] \in 1..DaysInMonth(d[3], d[1])
    THEN Some(Pad(d[3], 4) \o "-" \o Pad(d[1], 2) \o "-" \o Pad(d[2], 2))
    ELSE Some(ToString(d[1]) \o "/" \o ToString(d[2]) \o "/" \o ToString(d[3]))

\* datetime.strptime(d, '%m/%d/%Y').strftime('%Y-%m-%d'); None when strptime raises
ReformatDate(d) ==
  LET m == d[1]
      dd == d[2]
      y == d[3]
  IN IF m \in 1..12 /\ y >= 1 /\ dd \in 1..DaysInMonth(y, m)
       THEN Some(Pad(y, 4) \o "-" \o Pad(m, 2) \o "-" \o Pad(dd, 2))
       ELSE None

(***************************************************************************)
(* PORTAL STUB                                                             *)
(***************************************************************************)
SEE_PORTAL == "See Portal"

create_portal_stub(state) ==
  LET cfg == DOT_SOURCES[state]
  IN [id |-> generate_id(state \o "-portal"),
      state |-> state,
      project_id |-> None,
      description |-> cfg.name \o " Bid Schedule - Visit portal for current lettings",
      cost_low |-> None,
      cost_high |-> None,
      cost_display |-> Some(SEE_PORTAL),
      ad_date |-> None,
      let_date |-> None,
      project_type |-> None,
      location |-> None,
      district |-> None,
      url |-> cfg.portal_url,
      source |-> cfg.name,
      business_lines |-> {"highway"}]

\* a handler that catches ValueError only
ExceptValueError(exc) == exc # None /\ exc[1] = "ValueError"

\* except Exception: every exception of the model is caught
ExceptException(exc) == exc # None

(***************************************************************************)
(* MASSDOT PARSER                                                          *)
(*                                                                         *)
(* The fetched page, as text, is the sequence of the blocks that           *)
(* re.split(r'(?=Location:)') cuts it into.  A block is the record of what *)
(* the patterns of the parser find in it: label says that the block holds  *)
(* 'Project Value:', value is the text matched by [0-9,]+\.?\d* after a    *)
(* '$' (after the label when label holds, a bare amount otherwise), and    *)
(* the other fields are the texts after their labels.                      *)
(***************************************************************************)
MA_CAP == 50
VALUE_ONLY_MIN == 100000
VALUE_ONLY_MAX == 500000000
DESC_CAP == 200
TYPE_CAP == 60
KEY_PREFIX == 25

Map(s, F(_)) == [i \in 1..Len(s) |-> F(s[i])]

\* re.findall of one labelled field over the text: the present ones, in order
Collect(blocks, Get(_)) ==
  LET present == SelectSeq(blocks, LAMBDA b : Get(b) # None)
  IN [i \in 1..Len(present) |-> Get(present[i])[1]]

\* a.strip() for texts whose white space is the space character
RECURSIVE LStrip(_)
LStrip(s) == IF Len(s) > 0 /\ CharAt(s, 1) = " " THEN LStrip(SubSeq(s, 2, Len(s))) ELSE s

RECURSIVE RStrip(_)
RStrip(s) == IF Len(s) > 0 /\ CharAt(s, Len(s)) = " " THEN RStrip(SubSeq(s, 1, Len(s) - 1)) ELSE s

Strip(s) == LStrip(RStrip(s))

\* re.sub(r'\s+', ' ', s)
RECURSIVE CollapseSpaces(_)
CollapseSpaces(s) ==
  IF Len(s) < 2 THEN s
  ELSE IF CharAt(s, 1) = " " /\ CharAt(s, 2) = " " THEN CollapseSpaces(SubSeq(s, 2, Len(s)))
  ELSE CharAt(s, 1) \o CollapseSpaces(SubSeq(s, 2, Len(s)))

\* re.sub(r'\s*,\s*$', '', s)
StripTrailingComma(s) ==
  LET r == RStrip(s)
  IN IF Len(r) > 0 /\ CharAt(r, Len(r)) = "," THEN RStrip(SubSeq(r, 1, Len(r) - 1)) ELSE s

OptMap(o, F(_)) == IF o = None THEN None ELSE Some(F(o[1]))

\* strategy 1, lines 217-239: one project per block that holds the label and a value
block_extraction(blocks) ==
  LET valued == SelectSeq(blocks, LAMBDA b : b.label /\ b.value # None)
  IN [i \in 1..Len(valued) |->
       [location |-> OptMap(valued[i].location, Strip),
        description |-> OptMap(valued[i].description, LAMBDA d : Prefix(Strip(d), DESC_CAP)),
        value |-> valued[i].value[1],
        project_num |-> valued[i].project_num,
        project_type |-> OptMap(valued[i].project_type, Strip),
        ad_date |-> valued[i].ad_date,
        district |-> valued[i].district]]

\* strategy 2, lines 244-265: the occurrences of each field, zipped by position
positional_extraction(blocks) ==
  LET values == Collect(SelectSeq(blocks, LAMBDA b : b.label), LAMBDA b : b.value)
      locations == Collect(blocks, LAMBDA b : b.location)
      descriptions == Collect(blocks, LAMBDA b : b.description)
      proj_nums == Collect(blocks, LAMBDA b : b.project_num)
      proj_types == Collect(blocks, LAMBDA b : b.project_type)
      ad_dates == Collect(blocks, LAMBDA b : b.ad_date)
      districts == Collect(blocks, LAMBDA b : b.district)
      at(xs, i) == IF i <= Len(xs) THEN Some(xs[i]) ELSE None
  IN [i \in 1..Len(values) |->
       [location |-> at(locations, i),
        description |-> OptMap(at(descriptions, i), LAMBDA d : Prefix(d, DESC_CAP)),
        value |-> values[i],
        project_num |-> at(proj_nums, i),
        project_type |-> OptMap(at(proj_types, i), Strip),
        ad_date |-> at(ad_dates, i),
        district |-> at(districts, i)]]

\* strategy 3, lines 268-282: every '$' amount of the text in the plausible range
value_only_extraction(blocks) ==
  LET all_values == Collect(blocks, LAMBDA b : b.value)
      in_range(val) == /\ val # None
                       /\ val[1] # 0
                       /\ VALUE_ONLY_MIN <= val[1]
                       /\ val[1] <= VALUE_ONLY_MAX
      plausible(i) == in_range(parse_currency(all_values[i]))
      project(i) == [location |-> None,
                     description |-> Some("MassDOT Project #" \o ToString(i)),
                     value |-> all_values[i],
                     project_num |-> None,
                     project_type |-> None,
                     ad_date |-> None,
                     district |-> None]
  IN Map(SelectSeq([i \in 1..Len(all_values) |-> i], plausible), project)

\* a ladder that runs the value-only strategy whatever the block strategy
\* found, and adds its candidates
extract_projects_value_always(blocks) ==
  [projects |-> block_extraction(blocks) \o value_only_extraction(blocks),
   attempted |-> <<"block", "value_only">>]

\* the ladder of lines 217-282: the strategies attempted, in order, and the
\* projects of the first one that yields any
extract_projects(blocks) ==
  LET third(p2) == IF p2 # <<>>
                     THEN [projects |-> p2, attempted |-> <<>>]
                     ELSE [projects |-> value_only_extraction(blocks),
                           attempted |-> <<"value_only">>]
      tried(strategy, r) == [projects |-> r.projects,
                             attempted |-> <<strategy>> \o r.attempted]
      second(p1) == IF p1 # <<>>
                      THEN [projects |-> p1, attempted |-> <<>>]
                      ELSE tried("positional", third(positional_extraction(blocks)))
  IN tried("block", second(block_extraction(blocks)))

\* the letting dict of lines 290-327, for a project whose cost is a finite non-zero float
massdot_letting(p, cost) ==
  LET url == DOT_SOURCES["MA"].portal_url
      desc0(location) == IF p.description # None /\ Len(p.description[1]) > 0
                           THEN p.description[1]
                           ELSE "MassDOT Project - "
                                \o (IF location # None THEN location[1] ELSE "Various Locations")
      ad_date == IF p.ad_date # None THEN ReformatDate(p.ad_date[1]) ELSE None
      district == OptMap(p.district, DigitsValue)
      project_url == IF p.project_num # None
                       THEN url \o "?projnum=" \o p.project_num[1]
                       ELSE url
      key(desc) == "MA-" \o (IF p.project_num # None THEN p.project_num[1] ELSE FloatStr(cost))
                   \o "-" \o Prefix(desc, KEY_PREFIX)
      letting(location, desc, proj_type) ==
        [id |-> generate_id(key(desc)),
         state |-> "MA",
         project_id |-> p.project_num,
         description |-> Prefix(desc, DESC_CAP),
         cost_low |-> Some(cost),
         cost_high |-> Some(cost),
         cost_display |-> format_currency(Some(cost)),
         ad_date |-> ad_date,
         let_date |-> None,
         project_type |-> proj_type,
         location |-> location,
         district |-> district,
         url |-> project_url,
         source |-> "MassDOT",
         business_lines |-> Range(get_business_lines(
                               desc \o " " \o (IF proj_type # None THEN proj_type[1] ELSE "")))]
      located(location) ==
        letting(location,
                Strip(CollapseSpaces(desc0(location))),
                IF p.project_type # None /\ Len(p.project_type[1]) > 0
                  THEN Some(Prefix(StripTrailingComma(p.project_type[1]), TYPE_CAP))
                  ELSE p.project_type)
  IN located(clean_location(p.location))

\* the loop of lines 285-328 from project i on: the lettings appended and the
\* exception that ended the loop, if any
RECURSIVE build_lettings(_, _, _)
build_lettings(projects, i, lettings) ==
  IF i > Min(Len(projects), MA_CAP) THEN [lettings |-> lettings, exc |-> None]
  ELSE LET priced(cost) ==
             IF cost = None \/ cost[1] = 0
               THEN build_lettings(projects, i + 1, lettings)
             ELSE IF IntRaises(cost[1])
               THEN [lettings |-> lettings, exc |-> Some("OverflowError")]
             ELSE build_lettings(projects, i + 1,
                                 Append(lettings, massdot_letting(projects[i], cost[1])))
       IN priced(parse_currency(projects[i].value))

\* parse_massdot on the outcome of requests.get: the list returned, the
\* exception that escapes (None: it returns normally) and the strategies attempted
parse_massdot(fetch) ==
  LET returned(body, attempted) ==
        LET caught == ExceptException(body.exc)
        IN [lettings |-> IF caught THEN Append(body.lettings, create_portal_stub("MA"))
                         ELSE IF body.exc = None /\ body.lettings = <<>>
                           THEN <<create_portal_stub("MA")>>
                         ELSE body.lettings,
            exc |-> IF caught THEN None ELSE body.exc,
            attempted |-> attempted]
      built(ladder) == returned(build_lettings(ladder.projects, 1, <<>>), ladder.attempted)
  IN IF fetch.ok THEN built(extract_projects(fetch.blocks))
     ELSE returned([lettings |-> <<>>, exc |-> Some("RequestException")], <<>>)

(***************************************************************************)
(* MAINEDOT PARSER                                                         *)
(*                                                                         *)
(* The sheet read by pd.read_excel is the set of column roles that the     *)
(* header matching of lines 401-419 finds (cols) and the rows.  A cell is  *)
(* None for NaN.  A cost cell is a number or a text; a date cell is a      *)
(* datetime or a text, the text of a date being its <<month, day, year>>.  *)
(***************************************************************************)
ME_DESC_CAP == 250

\* str(row.get(col_map.get(role, ''), '')).strip()
StrCell(row, role, cols) ==
  IF role \notin cols THEN ""
  ELSE IF row[role] = None THEN "nan"
  ELSE Strip(row[role][1])

\* lines 433-440: the float of the cost cell, None when absent or not a number
mainedot_cost(row, cols) ==
  IF "cost" \notin cols \/ row.cost = None THEN None
  ELSE LET cell == row.cost[1]
           cost_raw == IF cell.kind = "num" THEN FloatStr(cell.n) ELSE cell.s
           cost_str == Strip(StripChars(cost_raw, "$,"))
       IN float(cost_str)

\* lines 443-452: the ISO date of the date cell, None when absent or unparsable
mainedot_date(row, cols) ==
  IF "ad_date" \notin cols \/ row.ad_date = None THEN None
  ELSE LET cell == row.ad_date[1]
       IN IF cell.mdy = None THEN None ELSE ReformatDate(cell.mdy[1])

\* cost fields whose display tests the cost for None instead of for truth
mainedot_cost_fields_not_none(cost) ==
  LET truthy == cost # None /\ cost[1] # 0
  IN [cost_low |-> IF truthy THEN cost ELSE None,
      cost_high |-> IF truthy THEN cost ELSE None,
      cost_display |-> IF cost # None THEN format_currency(cost) ELSE Some(SEE_PORTAL)]

\* lines 485-487: cost_low, cost_high and cost_display of a row
mainedot_cost_fields(cost) ==
  LET truthy == cost # None /\ cost[1] # 0
  IN [cost_low |-> IF truthy THEN cost ELSE None,
      cost_high |-> IF truthy THEN cost ELSE None,
      cost_display |-> IF truthy THEN format_currency(cost) ELSE Some(SEE_PORTAL)]

\* lines 465-471
mainedot_business_lines(work_type, description) ==
  LET matched == {w \in DOMAIN ME_WORK_TYPE_MAPPING : Contains(Lower(work_type), Lower(w))}
      lines == UNION {Range(ME_WORK_TYPE_MAPPING[w]) : w \in matched}
  IN IF lines # {} THEN lines ELSE Range(get_business_lines(description))

\* the body of the row loop, lines 423-501, for the row of index idx: the
\* letting appended (None: the row is skipped) and the exception caught by
\* the row's own handler, if any
mainedot_row(row, idx, cols) ==
  LET d1(location, scope) ==
        IF Len(scope) > 0 /\ Lower(scope) # "nan" THEN scope \o ": " \o location ELSE location
      described(location, details) ==
        IF Len(details) > 0 /\ Lower(details) # "nan"
          THEN d1(location, StrCell(row, "scope", cols)) \o " - " \o details
          ELSE d1(location, StrCell(row, "scope", cols))
      identified(pid) == IF Lower(pid) = "nan" THEN None ELSE Some(pid)
      key(location, project_id) ==
        "ME-" \o (IF project_id # None /\ Len(project_id[1]) > 0 THEN project_id[1] ELSE ToString(idx))
        \o "-" \o Prefix(location, KEY_PREFIX)
      letting(work_type, location, project_id, cost_fields, description) ==
        [id |-> generate_id(key(location, project_id)),
         state |-> "ME",
         project_id |-> project_id,
         description |-> Prefix(description, ME_DESC_CAP),
         cost_low |-> cost_fields.cost_low,
         cost_high |-> cost_fields.cost_high,
         cost_display |-> cost_fields.cost_display,
         ad_date |-> mainedot_date(row, cols),
         let_date |-> None,
         project_type |-> IF Lower(work_type) # "nan" THEN Some(work_type) ELSE None,
         location |-> Some(location),
         district |-> None,
         url |-> DOT_SOURCES["ME"].portal_url,
         source |-> "MaineDOT",
         business_lines |-> mainedot_business_lines(work_type, description)]
      body(location, cost) ==
        IF Len(location) = 0 \/ Lower(location) = "nan"
          THEN [letting |-> None, exc |-> None]
        ELSE IF cost # None /\ cost[1] # 0 /\ IntRaises(cost[1])
          THEN [letting |-> None,
                exc |-> Some(IF cost[1] = Inf THEN "OverflowError" ELSE "ValueError")]
        ELSE [letting |-> Some(letting(StrCell(row, "work_type", cols),
                                       location,
                                       identified(StrCell(row, "project_id", cols)),
                                       mainedot_cost_fields(cost),
                                       described(location, StrCell(row, "details", cols)))),
              exc |-> None]
  IN body(StrCell(row, "location", cols), mainedot_cost(row, cols))

\* the row loop of lines 422-501 from row i on (row i has index i - 1)
RECURSIVE mainedot_rows(_, _, _, _)
mainedot_rows(rows, cols, i, lettings) ==
  IF i > Len(rows) THEN lettings
  ELSE LET appended(r) == IF r.letting # None THEN Append(lettings, r.letting[1]) ELSE lettings
       IN mainedot_rows(rows, cols, i + 1, appended(mainedot_row(rows[i], i - 1, cols)))

\* parse_mainedot on the outcome of requests.get and pd.read_excel: the list
\* returned and the exception that escapes (None: it returns normally)
parse_mainedot(pandas_available, fetch) ==
  IF ~pandas_available THEN [lettings |-> <<create_portal_stub("ME")>>, exc |-> None]
  ELSE LET returned(body) ==
             LET caught == ExceptException(body.exc)
             IN [lettings |-> IF caught THEN Append(body.lettings, create_portal_stub("ME"))
                              ELSE IF body.exc = None /\ body.lettings = <<>>
                                THEN <<create_portal_stub("ME")>>
                              ELSE body.lettings,
                 exc |-> IF caught THEN None ELSE body.exc]
       IN returned(IF fetch.status = "ok"
                     THEN [lettings |-> mainedot_rows(fetch.rows, fetch.cols, 1, <<>>),
                           exc |-> None]
                   ELSE IF fetch.status = "unreadable"
                     THEN [lettings |-> <<>>, exc |-> Some("XLRDError")]
                   ELSE [lettings |-> <<>>, exc |-> Some("RequestException")])

(***************************************************************************)
(* FETCHING                                                                *)
(***************************************************************************)
\* an iteration that assigns the parser's list instead of extending with it
fetch_dot_step_assign(lettings, state, result) ==
  IF DOT_SOURCES[state].parser = "active" /\ state \in {"MA", "ME"}
    THEN IF result.exc = None
           THEN result.lettings
           ELSE Append(lettings, create_portal_stub(state))
    ELSE Append(lettings, create_portal_stub(state))

\* one iteration of the loop of fetch_dot_lettings, lines 553-569: result is
\* what the parser of the jurisdiction did (stub jurisdictions have none)
fetch_dot_step(lettings, state, result) ==
  IF DOT_SOURCES[state].parser = "active" /\ state \in {"MA", "ME"}
    THEN IF result.exc = None
           THEN lettings \o result.lettings
           ELSE Append(lettings, create_portal_stub(state))
    ELSE Append(lettings, create_portal_stub(state))

(***************************************************************************)
(* MARKET HEALTH & SUMMARY                                                 *)
(***************************************************************************)
RECURSIVE SumInts(_)
SumInts(s) == IF s = <<>> THEN 0 ELSE s[1] + SumInts(Tail(s))

\* sum(F(x) for x in s)
SumSeq(s, F(_)) == SumInts([i \in 1..Len(s) |-> F(s[i])])

\* d.get(field) or 0
OrZero(o) == IF o = None THEN 0 ELSE o[1]

TIER_TOP == 100000000
TIER_NEXT == 50000000
TIER_MID == 20000000

\* a staircase whose last branch continues the stairs downwards
dot_pipeline_zero_low(total_value) ==
  IF total_value >= TIER_TOP
    THEN [score |-> 90, trend |-> "up", action |-> "Expand highway capacity - strong pipeline"]
  ELSE IF total_value >= TIER_NEXT
    THEN [score |-> 82, trend |-> "up", action |-> "Expand highway capacity"]
  ELSE IF total_value >= TIER_MID
    THEN [score |-> 70, trend |-> "stable", action |-> "Maintain position"]
  ELSE [score |-> 60, trend |-> "stable", action |-> "Monitor opportunities"]

\* a staircase whose last branch has the score of one tier and the action of another
dot_pipeline_zero_action(total_value) ==
  IF total_value >= TIER_TOP
    THEN [score |-> 90, trend |-> "up", action |-> "Expand highway capacity - strong pipeline"]
  ELSE IF total_value >= TIER_NEXT
    THEN [score |-> 82, trend |-> "up", action |-> "Expand highway capacity"]
  ELSE IF total_value >= TIER_MID
    THEN [score |-> 70, trend |-> "stable", action |-> "Maintain position"]
  ELSE IF total_value > 0
    THEN [score |-> 60, trend |-> "stable", action |-> "Monitor opportunities"]
  ELSE [score |-> 82, trend |-> "up", action |-> "Monitor opportunities"]

\* a staircase without the step at the middle threshold
dot_pipeline_no_mid(total_value) ==
  IF total_value >= TIER_TOP
    THEN [score |-> 90, trend |-> "up", action |-> "Expand highway capacity - strong pipeline"]
  ELSE IF total_value >= TIER_NEXT
    THEN [score |-> 82, trend |-> "up", action |-> "Expand highway capacity"]
  ELSE IF total_value > 0
    THEN [score |-> 60, trend |-> "stable", action |-> "Monitor opportunities"]
  ELSE [score |-> 82, trend |-> "up", action |-> "Expand highway capacity"]

\* a staircase whose last branch is the top tier
dot_pipeline_zero_top(total_value) ==
  IF total_value >= TIER_TOP
    THEN [score |-> 90, trend |-> "up", action |-> "Expand highway capacity - strong pipeline"]
  ELSE IF total_value >= TIER_NEXT
    THEN [score |-> 82, trend |-> "up", action |-> "Expand highway capacity"]
  ELSE IF total_value >= TIER_MID
    THEN [score |-> 70, trend |-> "stable", action |-> "Maintain position"]
  ELSE IF total_value > 0
    THEN [score |-> 60, trend |-> "stable", action |-> "Monitor opportunities"]
  ELSE [score |-> 90, trend |-> "up", action |-> "Expand highway capacity - strong pipeline"]

\* lines 626-635
dot_pipeline(total_value) ==
  IF total_value >= TIER_TOP
    THEN [score |-> 90, trend |-> "up", action |-> "Expand highway capacity - strong pipeline"]
  ELSE IF total_value >= TIER_NEXT
    THEN [score |-> 82, trend |-> "up", action |-> "Expand highway capacity"]
  ELSE IF total_value >= TIER_MID
    THEN [score |-> 70, trend |-> "stable", action |-> "Maintain position"]
  ELSE IF total_value > 0
    THEN [score |-> 60, trend |-> "stable", action |-> "Monitor opportunities"]
  ELSE [score |-> 82, trend |-> "up", action |-> "Expand highway capacity"]

METRICS == <<"dot_pipeline", "housing_permits", "construction_spending", "migration",
             "input_cost_stability", "infrastructure_funding">>

\* weights that give the pipeline metric four times its share
weights_pipeline_heavy ==
  [dot_pipeline |-> 60, housing_permits |-> 10, construction_spending |-> 10,
   migration |-> 10, input_cost_stability |-> 8, infrastructure_funding |-> 7]

weights ==
  [dot_pipeline |-> 15, housing_permits |-> 10, construction_spending |-> 10,
   migration |-> 10, input_cost_stability |-> 8, infrastructure_funding |-> 7]

GROWTH_MIN == 75
STABLE_MIN == 60

\* a banding with strict comparisons
overall_status_strict(overall) ==
  IF overall > GROWTH_MIN THEN "growth"
  ELSE IF overall > STABLE_MIN THEN "stable"
  ELSE "watchlist"

\* line 653
overall_status(overall) ==
  IF overall >= GROWTH_MIN THEN "growth"
  ELSE IF overall >= STABLE_MIN THEN "stable"
  ELSE "watchlist"

\* line 651: round(total_w / sum_w, 1), in tenths
overall_score(total_w, sum_w) == RoundDiv(total_w, sum_w)

calculate_market_health(dot_lettings, news) ==
  LET total_value == SumSeq(dot_lettings, LAMBDA d : OrZero(d.cost_low))
      mh == [dot_pipeline |-> dot_pipeline(total_value),
             housing_permits |-> [score |-> 65, trend |-> "stable", action |-> "Monitor trends"],
             construction_spending |-> [score |-> 61, trend |-> "down", action |-> "Selective investment"],
             migration |-> [score |-> 73, trend |-> "up", action |-> "Geographic expansion"],
             input_cost_stability |-> [score |-> 55, trend |-> "down", action |-> "Hedge 6 months"],
             infrastructure_funding |-> [score |-> 78, trend |-> "stable", action |-> "Selective growth"]]
      total_w == SumSeq(METRICS, LAMBDA k : mh[k].score * weights[k])
      sum_w == SumSeq(METRICS, LAMBDA k : weights[k])
      overall == overall_score(total_w, sum_w)
  IN [metrics |-> mh,
      overall_score |-> overall,
      overall_status |-> overall_status(overall)]

CountIf(s, P(_)) == Len(SelectSeq(s, P))

\* a summary that counts every news item as an opportunity
build_summary_all_news(dot_lettings, news) ==
  LET total_low == SumSeq(dot_lettings, LAMBDA d : OrZero(d.cost_low))
      total_high == SumSeq(dot_lettings, LAMBDA d : OrZero(d.cost_high))
      by_state == [st \in Range(STATES) |->
                     CountIf(dot_lettings, LAMBDA d : d.state = st)
                     + CountIf(news, LAMBDA n : n.state = st)]
      by_cat == [dot_letting |-> Len(dot_lettings),
                 news |-> CountIf(news, LAMBDA n : n.category = "news"),
                 funding |-> CountIf(news, LAMBDA n : n.category = "funding")]
  IN [total_opportunities |-> by_cat.dot_letting + by_cat.funding + by_cat.news,
      total_value_low |-> total_low,
      total_value_high |-> total_high,
      by_state |-> by_state,
      by_category |-> by_cat]

build_summary(dot_lettings, news) ==
  LET total_low == SumSeq(dot_lettings, LAMBDA d : OrZero(d.cost_low))
      total_high == SumSeq(dot_lettings, LAMBDA d : OrZero(d.cost_high))
      by_state == [st \in Range(STATES) |->
                     CountIf(dot_lettings, LAMBDA d : d.state = st)
                     + CountIf(news, LAMBDA n : n.state = st)]
      by_cat == [dot_letting |-> Len(dot_lettings),
                 news |-> CountIf(news, LAMBDA n : n.category = "news"),
                 funding |-> CountIf(news, LAMBDA n : n.category = "funding")]
  IN [total_opportunities |-> by_cat.dot_letting + by_cat.funding,
      total_value_low |-> total_low,
      total_value_high |-> total_high,
      by_state |-> by_state,
      by_category |-> by_cat]

(***************************************************************************)
(* Inputs: what the MassDOT page, the MaineDOT sheet and the news feeds    *)
(* can hold.                                                               *)
(***************************************************************************)
Blk(label, value, location, description, project_num, project_type, ad_date, district) ==
  [label |-> label, value |-> value, location |-> location, description |-> description,
   project_num |-> project_num, project_type |-> project_type, ad_date |-> ad_date,
   district |-> district]

\* a string of n digits
RECURSIVE Nines(_)
Nines(n) ==
  IF n = 0 THEN ""
  ELSE IF n % 2 = 1 THEN "9" \o Nines(n - 1)
  ELSE Nines(n \div 2) \o Nines(n \div 2)

\* a well-formed block
B_WELL == Blk(TRUE, Some("2,500,000"), Some("BOSTON"), Some("Resurfacing  Route 9"),
              Some("608123"), Some("Resurfacing ,"), Some(<<3, 15, 2024>>), Some("4"))
\* a block whose Ad Date matches the pattern and is no date
B_BADDATE == Blk(TRUE, Some("750,000"), Some("DISTRICT 2 OFFICE"), Some("Bridge deck replacement"),
                 Some("608456"), None, Some(<<13, 45, 2024>>), None)
\* a block with a value and nothing else
B_BIG == Blk(TRUE, Some("60,000,000"), None, None, None, None, None, None)
\* a block whose value is matched by [0-9,]+ and is no number
B_COMMAS == Blk(TRUE, Some(","), None, Some("Culvert repair"), Some("608789"), None,
                Some(<<6, 1, 2024>>), None)
\* a block whose value has more digits than a float holds
B_HUGE == Blk(TRUE, Some(Nines(MAX_FLOAT_DIGITS + 1)), None, Some("Interstate 95 reconstruction"),
              Some("608999"), None, None, None)
\* text with a bare '$' amount in the plausible range, and one outside it
B_BARE == Blk(FALSE, Some("300,000"), None, None, None, None, None, None)
B_SMALL == Blk(FALSE, Some("50"), None, None, None, None, None, None)
\* text that no pattern matches
B_NONE == Blk(FALSE, None, None, None, None, None, None, None)

\* the blocks in the order a page holds them: the block that ends the build
\* loop stands between blocks the loop builds
Blocks == <<B_WELL, B_COMMAS, B_BADDATE, B_HUGE, B_BIG, B_BARE, B_SMALL, B_NONE>>
LongBlocks == {B_WELL, B_BARE}

SeqsUpTo(S, n) == UNION {[1..k -> S] : k \in 0..n}

\* the elements of a sequence at the positions of a set, in their order
Pick(order, at) ==
  LET idx == SelectSeq([i \in 1..Len(order) |-> i], LAMBDA i : i \in at)
  IN [k \in 1..Len(idx) |-> order[idx[k]]]

\* the subsequences of at most n elements
SubSeqsUpTo(order, n) ==
  {Pick(order, at) : at \in {a \in SUBSET (1..Len(order)) : Cardinality(a) <= n}}

Pages == SubSeqsUpTo(Blocks, MaxBlocks)
         \cup {[i \in 1..(MA_CAP + LongExtra) |-> b] : b \in LongBlocks}

MAFetches == {[ok |-> FALSE, blocks |-> <<>>]} \cup {[ok |-> TRUE, blocks |-> pg] : pg \in Pages}

Row(work_type, location, project_id, scope, details, cost, ad_date) ==
  [work_type |-> work_type, location |-> location, project_id |-> project_id,
   scope |-> scope, details |-> details, cost |-> cost, ad_date |-> ad_date]

NumCell(n) == Some([kind |-> "num", n |-> n, s |-> ""])
StrCell_(s) == Some([kind |-> "str", n |-> 0, s |-> s])
DateCell(kind, mdy) == Some([kind |-> kind, mdy |-> mdy])

\* a full row with native cell types
R_FULL == Row(Some("Highway Preservation Paving"), Some("Bangor"), Some("026112.00"),
              Some("Paving"), None, NumCell(25000000), DateCell("datetime", Some(<<4, 2, 2024>>)))
\* a row whose cost and date are texts that are no number and no date
\* (a second row of the project of R_FULL)
R_TBD == Row(Some("Bridge Construction"), Some("Bangor"), Some("026112.00"),
             None, Some("Bridge deck replacement"), StrCell_("TBD"), DateCell("str", None))
\* a row whose cost and date are texts of a number and of a date
R_TEXT == Row(None, Some("Portland"), None, None, None, StrCell_("$1,200,000"),
              DateCell("str", Some(<<5, 1, 2024>>)))
\* a row without a location
R_NOLOC == Row(Some("Multimodal"), None, Some("027555.00"), None, None, NumCell(400000), None)
\* a row whose cost text is read by float() as infinity
R_INF == Row(Some("Bridge Other"), Some("Lewiston"), Some("027777.00"), None, None,
             StrCell_("inf"), None)

\* a row whose cost is the number 0
R_ZERO == Row(Some("Multimodal"), Some("Augusta"), Some("027001.00"), None, None,
              NumCell(0), DateCell("datetime", Some(<<6, 30, 2024>>)))

\* the rows in the order a sheet holds them
Rows == <<R_FULL, R_TBD, R_TEXT, R_NOLOC, R_INF, R_ZERO>>
LongRows == {R_TBD, R_TEXT}

ALL_COLS == {"work_type", "ad_date", "scope", "location", "details", "project_id", "admin", "cost"}
ColSets == {ALL_COLS, ALL_COLS \ {"cost"}}

Sheets == {[status |-> "ok", cols |-> c, rows |-> r] : c \in ColSets, r \in SubSeqsUpTo(Rows, MaxRows)}
          \cup {[status |-> "ok", cols |-> ALL_COLS, rows |-> [i \in 1..(MA_CAP + LongExtra) |-> r]] :
                  r \in LongRows}

MEFetches == {[status |-> st, cols |-> {}, rows |-> <<>>] : st \in {"error", "unreadable"}}
             \cup Sheets

\* the items fetch_rss_feeds returns, by the fields the summary reads
NewsItems == {[state |-> "VT", category |-> "news"], [state |-> "ME", category |-> "funding"]}
NewsLists == SeqsUpTo(NewsItems, MaxNews)

(***************************************************************************)
(* The run: run_scraper, lines 691-745.                                    *)
(***************************************************************************)
VARIABLES
  pc,                \* the step run_scraper is at
  si,                \* fetch_dot_lettings: index in DOT_SOURCES of the next jurisdiction
  PANDAS_AVAILABLE,  \* line 32/34
  fetched,           \* what requests.get gave for MA and ME (None: not fetched)
  ret,               \* what parse_massdot and parse_mainedot returned (None: not called)
  dot_lettings,      \* lettings of fetch_dot_lettings, then dot_lettings of run_scraper
  news,              \* news of run_scraper
  mh,                \* market health (None: not computed)
  data               \* the document (None: not assembled)

vars == <<pc, si, PANDAS_AVAILABLE, fetched, ret, dot_lettings, news, mh, data>>

Init ==
  /\ pc = "dot"
  /\ si = 1
  /\ PANDAS_AVAILABLE \in BOOLEAN
  /\ fetched = [MA |-> None, ME |-> None]
  /\ ret = [MA |-> None, ME |-> None]
  /\ dot_lettings = <<>>
  /\ news = <<>>
  /\ mh = None
  /\ data = None

InDotLoop == pc = "dot" /\ si <= Len(DOT_ORDER)

\* parse_massdot and parse_mainedot on each input of the model
MassdotResult == [f \in MAFetches |-> parse_massdot(f)]

NoFetch == [status |-> "none", cols |-> {}, rows |-> <<>>]

MainedotResult == [f \in MEFetches \cup {NoFetch} |->
                     [pa \in BOOLEAN |-> parse_mainedot(pa, f)]]

\* lines 556-563: the parser of state, given response, returns result
ParserReturns(state, response, result) ==
  /\ fetched' = [fetched EXCEPT ![state] = response]
  /\ ret' = [ret EXCEPT ![state] = Some(result)]
  /\ dot_lettings' = fetch_dot_step(dot_lettings, state, result)

\* lines 557-558
ParseMassdot ==
  /\ InDotLoop
  /\ DOT_ORDER[si] = "MA"
  /\ \E f \in MAFetches : ParserReturns("MA", Some(f), MassdotResult[f])
  /\ si' = si + 1
  /\ UNCHANGED <<pc, PANDAS_AVAILABLE, news, mh, data>>

\* lines 559-560
ParseMainedot ==
  /\ InDotLoop
  /\ DOT_ORDER[si] = "ME"
  /\ \E f \in (IF PANDAS_AVAILABLE THEN MEFetches ELSE {NoFetch}) :
       ParserReturns("ME", IF PANDAS_AVAILABLE THEN Some(f) ELSE None,
                     MainedotResult[f][PANDAS_AVAILABLE])
  /\ si' = si + 1
  /\ UNCHANGED <<pc, PANDAS_AVAILABLE, news, mh, data>>

\* lines 564-566
PortalLink ==
  /\ InDotLoop
  /\ DOT_SOURCES[DOT_ORDER[si]].parser # "active"
  /\ dot_lettings' = fetch_dot_step(dot_lettings, DOT_ORDER[si], None)
  /\ si' = si + 1
  /\ UNCHANGED <<pc, PANDAS_AVAILABLE, fetched, ret, news, mh, data>>

\* lines 700-709: fetch_dot_lettings has returned; fetch_rss_feeds
FetchRss ==
  /\ pc = "dot"
  /\ si > Len(DOT_ORDER)
  /\ news' \in NewsLists
  /\ pc' = "health"
  /\ UNCHANGED <<si, PANDAS_AVAILABLE, fetched, ret, dot_lettings, mh, data>>

\* line 714
CalculateMarketHealth ==
  /\ pc = "health"
  /\ mh' = Some(calculate_market_health(dot_lettings, news))
  /\ pc' = "summary"
  /\ UNCHANGED <<si, PANDAS_AVAILABLE, fetched, ret, dot_lettings, news, data>>

\* lines 719-745
Assemble ==
  /\ pc = "summary"
  /\ data' = Some([summary |-> build_summary(dot_lettings, news),
                   dot_lettings |-> dot_lettings,
                   news |-> news,
                   market_health |-> mh[1]])
  /\ pc' = "done"
  /\ UNCHANGED <<si, PANDAS_AVAILABLE, fetched, ret, dot_lettings, news, mh>>

Next ==
  \/ ParseMassdot
  \/ ParseMainedot
  \/ PortalLink
  \/ FetchRss
  \/ CalculateMarketHealth
  \/ Assemble

Spec == Init /\ [][Next]_vars

(***************************************************************************)
(* Properties.                                                             *)
(***************************************************************************)
Called(s) == ret[s] # None
Returned(s) == ret[s][1]

IsStub(r) == r.id = generate_id(r.state \o "-portal")

OfState(lettings, s) == SelectSeq(lettings, LAMBDA r : r.state = s)

MassdotFetchFailed == fetched.MA # None /\ ~fetched.MA[1].ok
MainedotFetchFailed == fetched.ME # None /\ fetched.ME[1].status = "error"
MainedotSheet == fetched.ME # None /\ fetched.ME[1].status = "ok"

\* C1: parse_massdot and parse_mainedot return normally, whatever was
\* fetched and whatever step failed: no exception escapes them and the list
\* they return holds at least one record.
C1_ParsersReturnNonEmpty ==
  \A s \in {"MA", "ME"} :
    Called(s) => /\ Returned(s).exc = None
                 /\ Len(Returned(s).lettings) >= 1

\* both parsers have returned, MassDOT after an exception raised partway
\* through its build loop and MaineDOT after a sheet that could not be read
C1_Witness ==
  /\ Called("MA") /\ Called("ME")
  /\ fetched.MA[1].ok
  /\ \E i \in 1..Len(fetched.MA[1].blocks) : fetched.MA[1].blocks[i] = B_HUGE
  /\ fetched.ME # None /\ fetched.ME[1].status = "unreadable"

\* C2: every jurisdiction that fetch_dot_lettings has gone through has at
\* least one record of its own in the result, and the records of a
\* jurisdiction are exactly what that jurisdiction contributed, whatever
\* happened to the others.
C2_EveryJurisdictionContributes ==
  \A i \in 1..(si - 1) :
    LET s == DOT_ORDER[i]
        recs == OfState(dot_lettings, s)
    IN /\ Len(recs) >= 1
       /\ s \in {"MA", "ME"} => recs = Returned(s).lettings
       /\ s \notin {"MA", "ME"} => Len(recs) = 1 /\ IsStub(recs[1])

\* fetch_dot_lettings is through; MassDOT failed and MaineDOT gave real records
C2_Witness ==
  /\ si > Len(DOT_ORDER)
  /\ MassdotFetchFailed
  /\ \E i \in 1..Len(dot_lettings) : dot_lettings[i].state = "ME" /\ ~IsStub(dot_lettings[i])

AllFetchesFailed == MassdotFetchFailed /\ MainedotFetchFailed

\* C3: when the fetch of every jurisdiction fails the run still ends with the
\* full document, dot_lettings is one stub per configured jurisdiction and
\* nothing else, and the overall score is the one of the zero-total branch
\* (dot_pipeline 8.2, overall 7.0).
C3_AllFetchesFail ==
  (pc = "done" /\ AllFetchesFailed) =>
    /\ data # None
    /\ DOMAIN data[1] = {"summary", "dot_lettings", "news", "market_health"}
    /\ Len(data[1].dot_lettings) = Len(DOT_ORDER)
    /\ \A i \in 1..Len(DOT_ORDER) :
         LET r == data[1].dot_lettings[i]
         IN /\ r.state = DOT_ORDER[i]
            /\ r.cost_low = None /\ r.cost_high = None
            /\ r.ad_date = None /\ r.let_date = None
            /\ r.cost_display = Some("See Portal")
            /\ r.url = DOT_SOURCES[DOT_ORDER[i]].portal_url
    /\ data[1].market_health.metrics.dot_pipeline.score = 82
    /\ data[1].market_health.overall_score = 70

C3_Witness == pc = "done" /\ AllFetchesFailed

\* C4: total_opportunities of the summary is the number of opportunities plus
\* the number of news items of category 'funding'.
C4_TotalOpportunities ==
  data # None =>
    data[1].summary.total_opportunities =
      Len(data[1].dot_lettings)
      + Cardinality({i \in 1..Len(data[1].news) : data[1].news[i].category = "funding"})

\* a summary over news of both categories and over real lettings
C4_Witness ==
  /\ data # None
  /\ \E i, j \in 1..Len(news) : news[i].category = "funding" /\ news[j].category = "news"
  /\ Len(dot_lettings) > Len(DOT_ORDER)

\* C5: the overall score lies in [0, 10] and the overall status is the band
\* of that score: growth from 7.5, stable from 6.0, watchlist below; the
\* banding of line 653 puts the boundary values 7.5 and 6.0 in the upper band.
C5_ScoreAndBand ==
  mh # None =>
    LET o == mh[1].overall_score
        st == mh[1].overall_status
    IN /\ o \in 0..100
       /\ st \in {"growth", "stable", "watchlist"}
       /\ (st = "growth") <=> (o >= 75)
       /\ (st = "stable") <=> (o >= 60 /\ o < 75)
       /\ (st = "watchlist") <=> (o < 60)
       /\ overall_status(75) = "growth" /\ overall_status(74) = "stable"
       /\ overall_status(60) = "stable" /\ overall_status(59) = "watchlist"

\* market health computed over a pipeline in the lowest tier (overall 6.5,
\* the score nearest to a band boundary)
C5_Witness ==
  /\ mh # None
  /\ mh[1].metrics.dot_pipeline.score = 60
  /\ mh[1].overall_score = 65

\* the candidates of the MassDOT page and the cost of each, as the build
\* loop parses it
MassdotProjects == extract_projects(fetched.MA[1].blocks).projects
Costs(ps) == SubSeq([i \in 1..Len(ps) |-> parse_currency(ps[i].value)], 1, Len(ps))
BadDate(p) ==
  /\ p.ad_date # None
  /\ ~(/\ p.ad_date[1][1] \in 1..12
       /\ p.ad_date[1][2] \in 1..DaysInMonth(p.ad_date[1][3], p.ad_date[1][1]))
\* the loop gets to candidate i and past its int(cost)
Reached(costs, i) == \A j \in 1..i : costs[j] = None \/ costs[j][1] \notin {Inf, NaN}
Built(costs, i) == Reached(costs, i) /\ costs[i] # None /\ costs[i][1] # 0

MassdotJustReturned == pc = "dot" /\ si = 2 /\ fetched.MA[1].ok
MainedotJustReturned == pc = "dot" /\ si = 3 /\ MainedotSheet

\* the rows of the MaineDOT sheet
SheetRows == fetched.ME[1].rows
SheetCols == fetched.ME[1].cols
RowHasLocation(i) == "location" \in SheetCols /\ SheetRows[i].location # None
RowBadCost(i) ==
  /\ "cost" \in SheetCols
  /\ SheetRows[i].cost # None
  /\ SheetRows[i].cost[1].kind = "str"
  /\ float(StripChars(SheetRows[i].cost[1].s, "$,")) = None
RowBadDate(i) ==
  /\ "ad_date" \in SheetCols
  /\ SheetRows[i].ad_date # None
  /\ SheetRows[i].ad_date[1].kind = "str"
  /\ SheetRows[i].ad_date[1].mdy = None

\* what the claim asks of the record of a candidate or row whose cost
\* (badcost) or date (baddate) cannot be parsed
NulledRecord(r, badcost, baddate) ==
  /\ ~IsStub(r)
  /\ badcost => r.cost_low = None /\ r.cost_high = None
  /\ baddate => r.ad_date = None

C7_CostFields ==
  \A i \in 1..Len(dot_lettings) :
    LET r == dot_lettings[i]
    IN /\ \/ r.cost_low = None /\ r.cost_high = None
          \/ /\ r.cost_low # None /\ r.cost_high # None
             /\ r.cost_low[1] \in Int
             /\ r.cost_low[1] = r.cost_high[1]
       /\ (r.cost_display = Some("See Portal")) <=> (r.cost_low = None)

\* dot_lettings holds a MassDOT record with a cost, MaineDOT records with a
\* cost, with a cost of 0 and with no cost, and a stub
C7_Witness ==
  /\ si > Len(DOT_ORDER)
  /\ \E i \in 1..Len(dot_lettings) : dot_lettings[i].state = "MA" /\ dot_lettings[i].cost_low # None
  /\ MainedotSheet /\ SheetCols = ALL_COLS /\ SheetRows = <<R_FULL, R_ZERO>>
  /\ \E i \in 1..Len(dot_lettings) : dot_lettings[i].state = "ME" /\ dot_lettings[i].cost_low = None
  /\ \E i \in 1..Len(dot_lettings) : IsStub(dot_lettings[i])

\* C8 as claimed: two different records that a parser returns for its
\* jurisdiction carry different ids.
C8_DistinctIds ==
  \A s \in {"MA", "ME"} :
    Called(s) =>
      \A i, j \in 1..Len(Returned(s).lettings) :
        Returned(s).lettings[i] # Returned(s).lettings[j]
          => Returned(s).lettings[i].id # Returned(s).lettings[j].id

\* C9 as claimed: no jurisdiction has more than 50 records in dot_lettings.
C9_AtMostFiftyPerJurisdiction ==
  \A s \in Range(DOT_ORDER) : Len(OfState(dot_lettings, s)) <= 50

\* the rule of the claim: the action of a score under thresholds hi and lo
\* and the three action strings a
SelectAction(score, hi, lo, a) ==
  IF score >= hi THEN a.high ELSE IF score >= lo THEN a.medium ELSE a.low

\* one total per branch of the staircase
TierTotals == {0, 1, TIER_MID, TIER_NEXT, TIER_TOP}

\* one threshold per way of cutting the scores of the staircase
Thresholds == {0, 60, 61, 70, 71, 82, 83, 90, 91}

\* C10 as claimed: the dot_pipeline action is selected among three action
\* strings by comparing the score with a high and a low threshold.
C10_ActionByThresholds ==
  mh # None =>
    \E hi \in Thresholds, lo \in Thresholds :
      \E a \in [{"high", "medium", "low"} -> {dot_pipeline(t).action : t \in TierTotals}] :
        /\ mh[1].metrics.dot_pipeline.action
             = SelectAction(mh[1].metrics.dot_pipeline.score, hi, lo, a)
        /\ \A t \in TierTotals :
             dot_pipeline(t).action = SelectAction(dot_pipeline(t).score, hi, lo, a)

\* C10 as amended: the dot_pipeline action is fixed by the branch of the
\* staircase and is one of four strings, one per score 9.0, 8.2, 7.0 and 6.0,
\* so that the score alone determines it; the actions of the other five
\* metrics are constants.
C10_ActionByScore ==
  mh # None =>
    LET m == mh[1].metrics
    IN /\ m.dot_pipeline.score \in {90, 82, 70, 60}
       /\ m.dot_pipeline.score = 90 => m.dot_pipeline.action = "Expand highway capacity - strong pipeline"
       /\ m.dot_pipeline.score = 82 => m.dot_pipeline.action = "Expand highway capacity"
       /\ m.dot_pipeline.score = 70 => m.dot_pipeline.action = "Maintain position"
       /\ m.dot_pipeline.score = 60 => m.dot_pipeline.action = "Monitor opportunities"
       /\ m.housing_permits.action = "Monitor trends"
       /\ m.construction_spending.action = "Selective investment"
       /\ m.migration.action = "Geographic expansion"
       /\ m.input_cost_stability.action = "Hedge 6 months"
       /\ m.infrastructure_funding.action = "Selective growth"

\* market health computed over lettings without any cost: the branch of the
\* staircase that shares its score with another
C10_Witness ==
  /\ mh # None
  /\ \A i \in 1..Len(dot_lettings) : dot_lettings[i].cost_low = None
  /\ mh[1].metrics.dot_pipeline.score = 82

\* the total line 624 sums, over the lettings of the run
TotalValue == SumSeq(dot_lettings, LAMBDA d : OrZero(d.cost_low))

\* the dot_pipeline entry of the market health computed
DotPipeline == mh[1].metrics.dot_pipeline

\* C11 as claimed: when the summed cost_low is exactly 0 the dot_pipeline
\* metric has the score and the trend of the top tier, 9.0 and 'up'.
C11_ZeroAsTopTier ==
  (mh # None /\ TotalValue = 0) =>
    /\ DotPipeline.score = 90
    /\ DotPipeline.trend = "up"

\* C11 as amended: when the summed cost_low is exactly 0 the dot_pipeline
\* metric has score 8.2 and trend 'up', the values of the tier of totals from
\* $50M up to $100M; of the top tier it has the trend and not the score.
C11_ZeroAsNextTier ==
  (mh # None /\ TotalValue = 0) =>
    /\ DotPipeline.score = 82
    /\ DotPipeline.trend = "up"
    /\ DotPipeline.action = "Expand highway capacity"
    /\ DotPipeline.score < 90

\* market health over a total of 0 made of real records: a MaineDOT sheet
\* whose rows have no usable estimate
C11_Witness ==
  /\ mh # None
  /\ TotalValue = 0
  /\ \E i \in 1..Len(dot_lettings) : ~IsStub(dot_lettings[i])

\* no keyword of any business line occurs in the text
NoKeyword(text) ==
  LET low == Lower(text)
  IN \A line \in DOMAIN keywords_lower : \A kw \in keywords_lower[line] : ~Contains(low, kw)

\* texts given to the classifier directly: the empty text, texts without
\* any keyword and, next to them, texts with keywords
ClassifierTexts ==
  {"", " ", "Portland", "Various Locations", "Culvert repair", "TBD 2024",
   "HMA overlay", "Bridge deck", "dot", "Sand and gravel", "Bitumen emulsion"}

\* get_business_lines on each of the texts given to it directly
Classified == [t \in ClassifierTexts |-> get_business_lines(t)]
Unmatched == {t \in ClassifierTexts : NoKeyword(t)}

\* C12: every record of dot_lettings has a non-empty business_lines set within
\* the five-tag vocabulary; get_business_lines gives exactly <<highway>> for
\* the empty text and for every text without a keyword: on the texts given to
\* it directly and, in the run, on the description of a MaineDOT row that
\* has no work type.
C12_BusinessLines ==
  /\ \A i \in 1..Len(dot_lettings) :
       /\ dot_lettings[i].business_lines # {}
       /\ dot_lettings[i].business_lines \subseteq Range(BUSINESS_LINES)
  /\ MainedotJustReturned =>
       \A i \in 1..Len(Returned("ME").lettings) :
         LET r == Returned("ME").lettings[i]
         IN (~IsStub(r) /\ r.project_type = None /\ NoKeyword(r.description))
              => r.business_lines = {"highway"}
  /\ Classified[""] = <<"highway">>
  /\ \A t \in ClassifierTexts :
       /\ t \in Unmatched => Classified[t] = <<"highway">>
       /\ Classified[t] # <<>>
       /\ Range(Classified[t]) \subseteq Range(BUSINESS_LINES)

\* a run whose records were classified from a MassDOT text, from a MaineDOT
\* work type and, for want of one, from a description without any keyword
C12_Witness ==
  /\ pc = "done"
  /\ \E i \in 1..Len(dot_lettings) :
       /\ dot_lettings[i].state = "MA" /\ ~IsStub(dot_lettings[i])
       /\ Cardinality(dot_lettings[i].business_lines) > 1
  /\ \E i \in 1..Len(dot_lettings) :
       /\ dot_lettings[i].state = "ME" /\ ~IsStub(dot_lettings[i])
       /\ dot_lettings[i].project_type # None
  /\ \E i \in 1..Len(dot_lettings) :
       /\ dot_lettings[i].state = "ME" /\ ~IsStub(dot_lettings[i])
       /\ dot_lettings[i].project_type = None
       /\ NoKeyword(dot_lettings[i].description)
  /\ \E t \in Unmatched : t # ""
  /\ Unmatched # ClassifierTexts

\* the strategies of parse_massdot, in the order of the code
STRATEGIES == <<"block", "positional", "value_only">>

\* what a strategy finds on the page fetched
Yield(strategy) ==
  CASE strategy = "block" -> block_extraction(fetched.MA[1].blocks)
    [] strategy = "positional" -> positional_extraction(fetched.MA[1].blocks)
    [] strategy = "value_only" -> value_only_extraction(fetched.MA[1].blocks)

\* the strategies parse_massdot attempted on the page fetched
Attempted == extract_projects(fetched.MA[1].blocks).attempted

\* C13: the strategies are attempted in the order block, positional,
\* value-only; one is attempted only if every earlier one found nothing; the
\* candidates the build loop works on are those of the last one attempted,
\* so of one strategy only; when no strategy finds anything the list
\* returned is the stub alone.
C13_StrategyLadder ==
  MassdotJustReturned =>
    /\ Attempted = Returned("MA").attempted
    /\ Len(Attempted) \in 1..Len(STRATEGIES)
    /\ Attempted = SubSeq(STRATEGIES, 1, Len(Attempted))
    /\ \A k \in 1..Len(Attempted) : \A j \in 1..(k - 1) : Yield(STRATEGIES[j]) = <<>>
    /\ Len(Attempted) < Len(STRATEGIES) => Yield(Attempted[Len(Attempted)]) # <<>>
    /\ MassdotProjects = Yield(Attempted[Len(Attempted)])
    /\ (\A k \in 1..Len(STRATEGIES) : Yield(STRATEGIES[k]) = <<>>)
         => Returned("MA").lettings = <<create_portal_stub("MA")>>

\* a page on which only the last strategy finds candidates, and records are
\* built from them
C13_LastStrategyWitness ==
  /\ MassdotJustReturned
  /\ Attempted = STRATEGIES
  /\ Yield("value_only") # <<>>
  /\ \E i \in 1..Len(Returned("MA").lettings) : ~IsStub(Returned("MA").lettings[i])

\* totals on both sides of every step of the staircase
StairTotals ==
  {1, 19999999, 20000000, 20000001, 49999999, 50000000, 50000001,
   99999999, 100000000, 100000001, 2000000000}

\* C14: the dot_pipeline score and trend follow the staircase on the summed
\* cost_low: from $100M 9.0/up, from $50M 8.2/up, from $20M 7.0/stable, above
\* 0 6.0/stable; above 0 a larger total never has a lower score; the other
\* five metrics have the same score and trend in every run.
C14_Staircase ==
  mh # None =>
    LET t == TotalValue
        m == mh[1].metrics
    IN /\ t >= 100000000 => m.dot_pipeline.score = 90 /\ m.dot_pipeline.trend = "up"
       /\ (50000000 <= t /\ t < 100000000) =>
            m.dot_pipeline.score = 82 /\ m.dot_pipeline.trend = "up"
       /\ (20000000 <= t /\ t < 50000000) =>
            m.dot_pipeline.score = 70 /\ m.dot_pipeline.trend = "stable"
       /\ (0 < t /\ t < 20000000) =>
            m.dot_pipeline.score = 60 /\ m.dot_pipeline.trend = "stable"
       /\ t > 0 =>
            \A u \in StairTotals :
              /\ u >= t => dot_pipeline(u).score >= m.dot_pipeline.score
              /\ u <= t => dot_pipeline(u).score <= m.dot_pipeline.score
       /\ m.housing_permits.score = 65 /\ m.housing_permits.trend = "stable"
       /\ m.construction_spending.score = 61 /\ m.construction_spending.trend = "down"
       /\ m.migration.score = 73 /\ m.migration.trend = "up"
       /\ m.input_cost_stability.score = 55 /\ m.input_cost_stability.trend = "down"
       /\ m.infrastructure_funding.score = 78 /\ m.infrastructure_funding.trend = "stable"

\* market health over a total in the middle tier, with totals of the sample
\* on both sides of it
C14_Witness ==
  /\ mh # None
  /\ 20000000 <= TotalValue /\ TotalValue < 50000000
  /\ DotPipeline.score = 70
  /\ \E u \in StairTotals : u < TotalValue
  /\ \E u \in StairTotals : u > TotalValue

\* C15 as claimed: in the list a parser returns the stub record is present
\* only when it is the sole record, also when an exception ended the
\* building of the records after some were appended.
C15_StubOnlyAlone ==
  \A s \in {"MA", "ME"} :
    Called(s) =>
      \A i \in 1..Len(Returned(s).lettings) :
        IsStub(Returned(s).lettings[i]) => Len(Returned(s).lettings) = 1

\* C16: with the weights and the baseline scores of the code the overall
\* score is 7.2, 7.0, 6.7 or 6.5 according to the dot_pipeline score, so the
\* overall status is 'stable' in every run: 'growth' and 'watchlist' are
\* never reached, whatever the tier of the pipeline.
C16_AlwaysStable ==
  mh # None =>
    /\ mh[1].overall_status = "stable"
    /\ mh[1].overall_status \notin {"growth", "watchlist"}
    /\ DotPipeline.score = 90 => mh[1].overall_score = 72
    /\ DotPipeline.score = 82 => mh[1].overall_score = 70
    /\ DotPipeline.score = 70 => mh[1].overall_score = 67
    /\ DotPipeline.score = 60 => mh[1].overall_score = 65
    /\ mh[1].overall_score \in {72, 70, 67, 65}

\* market health over a pipeline in the top tier: the highest overall score
\* there is, below the growth band
C16_Witness ==
  /\ mh # None
  /\ TotalValue >= 100000000
  /\ DotPipeline.score = 90
  /\ mh[1].overall_score = 72
  /\ mh[1].overall_status = "stable"

====
